---- MODULE Spec2Model ----
(***************************************************************************)
(* routing-socks: a minimal SOCKS5 proxy (package main, the file with      *)
(* handleClient / handleHandshake / readAddr / dialThroughSocks /          *)
(* writeReply).  Bytes are the integers 0..255, byte strings are           *)
(* sequences of bytes.                                                     *)
(***************************************************************************)
EXTENDS Integers, Sequences, FiniteSets, TLC

VARIABLES
    proc,       \* the process: "start", "running", "exited" (bind failed), "crashed" (panic)
    upstream,   \* the -upstream flag: "" for direct mode, otherwise the upstream's address
    pc,         \* pc[s]: where session s's handleClient goroutine stands
    cin,        \* cin[s]: bytes the client has sent that the proxy has not read yet
    cout,       \* cout[s]: bytes the proxy has written to the client connection
    client,     \* client[s]: state of the client connection: "none", "open", "closed"
    hsRead,     \* hsRead[s]: the bytes the handshake's single Read returned
    header,     \* header[s]: the 4 request header bytes readAddr read (<<>> before that)
    destAddr,   \* destAddr[s]: the Addr readAddr returned
    looked,     \* looked[s]: the host names handed to net.LookupIP, in order
    ipsToCheck, \* ipsToCheck[s]: the result of net.LookupIP
    dialed,     \* dialed[s]: the addresses handed to net.Dial, in order
    destConn,   \* destConn[s]: state of the outbound connection: "none", "open", "closed"
    err,        \* err[s]: the err variable of handleClient at line 117
    uin,        \* uin[s]: bytes the outbound peer has sent that the proxy has not read yet
    uout,       \* uout[s]: bytes the proxy has written to the outbound connection
    replies,    \* replies[s]: the status bytes writeReply was called with, in order
    c2o,        \* c2o[s]: the goroutine io.Copy(destConn, client): "none", "run", "done"
    o2c,        \* o2c[s]: the call io.Copy(client, destConn): "none", "run", "done"
    csent,      \* csent[s]: history: everything client s sends on its connection
    usent,      \* usent[s]: history: everything the outbound peer of session s sends
    fin,        \* input of the function under test (function-level specifications)
    fout        \* its result

svars == <<pc, cin, cout, client, hsRead, header, destAddr, looked, ipsToCheck,
           dialed, destConn, err, uin, uout, replies, c2o, o2c, csent, usent>>
vars == <<proc, upstream, svars, fin, fout>>

----------------------------------------------------------------------------
(* Bounds of the model *)

\* number of client connections the listener accepts in a run
MaxSessions == 2
\* longest domain name enumerated for the address codec
MaxDomainLen == 3
\* longest list net.LookupIP answers with
MaxIPs == 2

(* Program constants *)

\* make([]byte, 256) in handleHandshake
BufSize == 256

Byte == 0..255
Min(a, b) == IF a < b THEN a ELSE b
Take(s, n) == SubSeq(s, 1, Min(n, Len(s)))
Drop(s, n) == SubSeq(s, n + 1, Len(s))
Fill(n, b) == [i \in 1..n |-> b]

----------------------------------------------------------------------------
(* encoding/binary, 16-bit big endian *)

Uint16(b) == b[1] * 256 + b[2]
PutUint16(p) == <<p \div 256, p % 256>>

----------------------------------------------------------------------------
(* handleHandshake.  data is what the single conn.Read returned (n = Len(data)     *)
(* bytes); the rest of the fresh 256-byte buffer is zero.                          *)

\* buf after the Read, indexed from 0 as in the source
HandshakeBuf(data) == [i \in 0..(BufSize - 1) |-> IF i < Len(data) THEN data[i + 1] ELSE 0]

\* 2+buf[1]: buf[1] is a byte, so the sum is computed in uint8
MethodsEnd(buf) == (2 + buf[1]) % 256

\* the result of handleHandshake before its Write: "error", "panic" (slice bounds
\* out of range: low 2 > high) or "write" (the response is to be written)
handleHandshake(data) ==
    LET buf == HandshakeBuf(data)
        n == Len(data)
        hi == MethodsEnd(buf)
    IN  IF n < 2 \/ buf[0] # 5 THEN [res |-> "error", msg |-> "invalid version", out |-> <<>>]
        ELSE IF hi < 2 THEN [res |-> "panic", msg |-> "slice bounds out of range", out |-> <<>>]
        ELSE IF ~(\E i \in 2..(hi - 1) : buf[i] = 0)
             THEN [res |-> "error", msg |-> "no supported auth method", out |-> <<>>]
        ELSE [res |-> "write", msg |-> "", out |-> <<5, 0>>]

----------------------------------------------------------------------------
(* readAddr.  in is everything the connection will still deliver; io.ReadFull      *)
(* fails when the stream ends before the requested number of bytes.                *)

NoAddr == [Atyp |-> 0, Addr |-> <<>>, Port |-> 0]
AddrFail(h, m) == [ok |-> FALSE, msg |-> m, header |-> h, addr |-> NoAddr, n |-> 0]

\* the header check with the command byte left unchecked
RequestHeaderOK_VersionOnly(hdr) == hdr[1] = 5

\* line 162: the version and command bytes of the request header
RequestHeaderOK(hdr) == hdr[1] = 5 /\ hdr[2] = 1

readAddr(in) ==
    LET hdr == Take(in, 4)
        atyp == hdr[4]
        pre == IF atyp = 3 THEN 5 ELSE 4
        alen == CASE atyp = 1 -> 4
                  [] atyp = 3 -> in[5]
                  [] atyp = 4 -> 16
    IN  IF Len(in) < 4 THEN AddrFail(<<>>, "EOF")
        ELSE IF ~RequestHeaderOK(hdr) THEN AddrFail(hdr, "invalid request")
        ELSE IF atyp \notin {1, 3, 4} THEN AddrFail(hdr, "unsupported address type")
        ELSE IF Len(in) < pre THEN AddrFail(hdr, "EOF")
        ELSE IF Len(in) < pre + alen THEN AddrFail(hdr, "EOF")
        ELSE IF Len(in) < pre + alen + 2 THEN AddrFail(hdr, "EOF")
        ELSE [ok |-> TRUE, msg |-> "", header |-> hdr,
              addr |-> [Atyp |-> atyp,
                        Addr |-> SubSeq(in, pre + 1, pre + alen),
                        Port |-> Uint16(SubSeq(in, pre + alen + 1, pre + alen + 2))],
              n |-> pre + alen + 2]

----------------------------------------------------------------------------
(* dialThroughSocks: the CONNECT request sent to the upstream *)

ConnectRequest(dest) == <<5, 1, 0, dest.Atyp>> \o dest.Addr \o PutUint16(dest.Port)

----------------------------------------------------------------------------
(* dialThroughSocks: reading the upstream's reply.  in is everything the upstream  *)
(* will still deliver after its handshake response.                                 *)

ReplyFail(m) == [ok |-> FALSE, msg |-> m, n |-> 0]

\* reading the reply as a fixed 10-byte message, whatever its address type
readUpstreamReply_Fixed10(in) ==
    IF Len(in) < 10 THEN ReplyFail("EOF")
    ELSE IF in[2] # 0 THEN ReplyFail("upstream request failed")
    ELSE [ok |-> TRUE, msg |-> "", n |-> 10]

readUpstreamReply(in) ==
    LET reply == Take(in, 4)
        atyp == reply[4]
        pre == IF atyp = 3 THEN 5 ELSE 4
        addrLen == CASE atyp = 1 -> 4
                     [] atyp = 3 -> in[5]
                     [] atyp = 4 -> 16
    IN  IF Len(in) < 4 THEN ReplyFail("EOF")
        ELSE IF reply[2] # 0 THEN ReplyFail("upstream request failed")
        ELSE IF atyp \notin {1, 3, 4} THEN ReplyFail("unsupported address type in reply")
        ELSE IF Len(in) < pre THEN ReplyFail("EOF")
        ELSE IF Len(in) < pre + addrLen + 2 THEN ReplyFail("EOF")
        ELSE [ok |-> TRUE, msg |-> "", n |-> pre + addrLen + 2]

----------------------------------------------------------------------------
(* writeReply *)

\* a reply carrying a bound address and port instead of 0.0.0.0:0
ReplyBytes_BoundAddr(rep) == <<5, rep, 0, 1, 127, 0, 0, 1, 4, 56>>

ReplyBytes(rep) == <<5, rep, 0, 1, 0, 0, 0, 0, 0, 0>>

----------------------------------------------------------------------------
(* net.IP as handleClient uses it: To4, String, and the choice of ipToUse *)

\* ip.To4(): the 4 bytes of an IPv4 address (4-byte form or IPv4-mapped 16-byte
\* form), <<>> (nil) otherwise
To4(ip) ==
    IF Len(ip) = 4 THEN ip
    ELSE IF Len(ip) = 16 /\ (\A i \in 1..10 : ip[i] = 0) /\ ip[11] = 255 /\ ip[12] = 255
         THEN SubSeq(ip, 13, 16)
    ELSE <<>>

\* ip.String(): the text of the address; an IPv4-mapped address prints as the
\* IPv4 address.  A text is modelled by the family and the bytes it spells.
IPString(ip) ==
    IF To4(ip) # <<>> THEN [fam |-> "ip4", b |-> To4(ip)] ELSE [fam |-> "ip6", b |-> ip]

\* the empty string ipToUse starts as
EmptyHost == [fam |-> "", b |-> <<>>]

\* index of the first IPv4 address of ips, 0 if there is none
FirstV4(ips) ==
    IF \E i \in 1..Len(ips) : To4(ips[i]) # <<>>
    THEN CHOOSE i \in 1..Len(ips) :
            To4(ips[i]) # <<>> /\ \A j \in 1..(i - 1) : To4(ips[j]) = <<>>
    ELSE 0

\* lines 93-102 without the IPv4 preference: the first address whatever its family
ipToUse_FirstOnly(ips) ==
    IF Len(ips) > 0 THEN IPString(ips[1]) ELSE EmptyHost

\* lines 93-102
ipToUse(ips) ==
    IF FirstV4(ips) # 0 THEN IPString(ips[FirstV4(ips)])
    ELSE IF Len(ips) > 0 THEN IPString(ips[1])
    ELSE EmptyHost

----------------------------------------------------------------------------
(* The environment: what clients, the resolver, destinations and the upstream send *)

Sessions == 1..MaxSessions

\* the value of the -upstream flag when one is configured
UpstreamAddr == "127.0.0.1:1080"

IPv4Body == <<10, 0, 0, 1>>
IPv6Body == <<32, 1, 13, 184>> \o Fill(11, 0) \o <<1>>
V4Mapped(b) == Fill(10, 0) \o <<255, 255>> \o b

\* negotiation messages a client starts with
HsMsgs == { <<5, 1, 0>>, <<5, 1, 2>>, <<5, 2, 2, 0>>, <<5, 3, 0, 5, 1>>, <<5, 254>>,
            <<4, 1, 0>> }

\* requests a client continues with
ReqMsgs == { <<5, 1, 0, 1>> \o IPv4Body \o <<0, 80>>,
             <<5, 1, 0, 3, 1, 97>> \o <<1, 187>>,
             <<5, 1, 0, 4>> \o IPv6Body \o <<0, 80>>,
             <<5, 2, 0, 1>> \o IPv4Body \o <<0, 80>>,
             <<5, 3, 0, 1>> \o IPv4Body \o <<0, 80>>,
             <<4, 1, 0, 1>> \o IPv4Body \o <<0, 80>>,
             <<5, 1, 0, 2>> \o IPv4Body \o <<0, 80>>,
             <<5, 1, 0, 1>> \o <<10, 0>> }

\* what a client sends after its request
Payloads == { <<>>, <<7, 8>> }

ClientScripts == { h \o r \o p : h \in HsMsgs, r \in ReqMsgs, p \in Payloads }

\* addresses the resolver can answer with (net.LookupIP returns 16-byte forms)
ResolverIPs == { V4Mapped(IPv4Body), V4Mapped(<<10, 0, 0, 2>>), IPv6Body }
SeqsUpTo(S, n) == UNION { [1..k -> S] : k \in 0..n }
ResolverAnswers == SeqsUpTo(ResolverIPs, MaxIPs)

\* what a directly dialed destination sends
DestScripts == { <<>>, <<9>>, <<9, 10>> }

\* what the upstream sends: handshake response, CONNECT reply, relayed bytes
UpstreamHs == { <<5, 0>>, <<5, 255>>, <<5>> }
UpstreamReplies == { <<5, 0, 0, 1, 0, 0, 0, 0, 0, 0>>,
                     <<5, 1, 0, 1, 0, 0, 0, 0, 0, 0>>,
                     <<5, 0, 0, 3, 1, 97, 0, 0>>,
                     <<5, 0, 0, 4>> \o Fill(16, 0) \o <<0, 0>>,
                     <<5, 0, 0, 2, 0, 0, 0, 0, 0, 0>>,
                     <<5, 0, 0, 3>>,
                     <<5, 0, 0, 1, 0>> }
UpstreamScripts == { h \o r \o p : h \in UpstreamHs, r \in UpstreamReplies, p \in { <<>>, <<9>> } }

----------------------------------------------------------------------------
(* Initial state: the flags are parsed, net.Listen has not been called yet *)

NoFn == [op |-> "none"]

SessionInit ==
    /\ pc = [s \in Sessions |-> "idle"]
    /\ cin = [s \in Sessions |-> <<>>]
    /\ cout = [s \in Sessions |-> <<>>]
    /\ client = [s \in Sessions |-> "none"]
    /\ hsRead = [s \in Sessions |-> <<>>]
    /\ header = [s \in Sessions |-> <<>>]
    /\ destAddr = [s \in Sessions |-> NoAddr]
    /\ looked = [s \in Sessions |-> <<>>]
    /\ ipsToCheck = [s \in Sessions |-> <<>>]
    /\ dialed = [s \in Sessions |-> <<>>]
    /\ destConn = [s \in Sessions |-> "none"]
    /\ err = [s \in Sessions |-> FALSE]
    /\ uin = [s \in Sessions |-> <<>>]
    /\ uout = [s \in Sessions |-> <<>>]
    /\ replies = [s \in Sessions |-> <<>>]
    /\ c2o = [s \in Sessions |-> "none"]
    /\ o2c = [s \in Sessions |-> "none"]
    /\ csent = [s \in Sessions |-> <<>>]
    /\ usent = [s \in Sessions |-> <<>>]

Init ==
    /\ proc = "start"
    /\ upstream \in {"", UpstreamAddr}
    /\ SessionInit
    /\ fin = NoFn
    /\ fout = NoFn

----------------------------------------------------------------------------
(* main *)

\* net.Listen: on failure the process exits with status 1
Listen ==
    /\ proc = "start"
    /\ proc' \in {"running", "exited"}
    /\ UNCHANGED <<upstream, svars, fin, fout>>

\* listener.Accept returned an error: it is printed and the loop continues
AcceptError ==
    /\ proc = "running"
    /\ UNCHANGED vars

\* the accept loop calling handleClient without `go`: the next Accept waits for
\* the previous session to end
Accept_Inline(s, script) ==
    /\ proc = "running"
    /\ pc[s] = "idle"
    /\ \A t \in Sessions : t < s => pc[t] = "closed"
    /\ pc' = [pc EXCEPT ![s] = "handshake"]
    /\ client' = [client EXCEPT ![s] = "open"]
    /\ cin' = [cin EXCEPT ![s] = script]
    /\ csent' = [csent EXCEPT ![s] = script]
    /\ UNCHANGED <<proc, upstream, cout, hsRead, header, destAddr, looked, ipsToCheck,
                   dialed, destConn, err, uin, uout, replies, c2o, o2c, usent, fin, fout>>

\* listener.Accept returned a connection: go handleClient(client, upstream).
\* script is everything this client is going to send.
Accept(s, script) ==
    /\ proc = "running"
    /\ pc[s] = "idle"
    /\ \A t \in Sessions : t < s => pc[t] # "idle"
    /\ pc' = [pc EXCEPT ![s] = "handshake"]
    /\ client' = [client EXCEPT ![s] = "open"]
    /\ cin' = [cin EXCEPT ![s] = script]
    /\ csent' = [csent EXCEPT ![s] = script]
    /\ UNCHANGED <<proc, upstream, cout, hsRead, header, destAddr, looked, ipsToCheck,
                   dialed, destConn, err, uin, uout, replies, c2o, o2c, usent, fin, fout>>

----------------------------------------------------------------------------
(* handleClient, one action per blocking step *)

\* handleClient returning without the deferred client.Close()
Return_KeepClient(s) ==
    /\ pc' = [pc EXCEPT ![s] = "closed"]
    /\ UNCHANGED client

\* handleClient returns: the deferred client.Close() runs
Return(s) ==
    /\ pc' = [pc EXCEPT ![s] = "closed"]
    /\ client' = [client EXCEPT ![s] = "closed"]

\* handleHandshake: conn.Read fails (the client went away before sending anything)
HandshakeReadError(s) ==
    /\ proc = "running"
    /\ pc[s] = "handshake"
    /\ cin[s] = <<>>
    /\ Return(s)
    /\ UNCHANGED <<proc, upstream, cin, cout, hsRead, header, destAddr, looked, ipsToCheck,
                   dialed, destConn, err, uin, uout, replies, c2o, o2c, csent, usent, fin, fout>>

\* handleHandshake: conn.Read returns the first n bytes the client sent, for any
\* n the network may deliver at once; the response Write succeeds (wok) or fails.
\* A panic in the goroutine ends the process.
Handshake(s) ==
    /\ proc = "running"
    /\ pc[s] = "handshake"
    /\ cin[s] # <<>>
    /\ \E n \in 1..Min(BufSize, Len(cin[s])), wok \in BOOLEAN :
          LET data == Take(cin[s], n)
              r == handleHandshake(data)
          IN  /\ hsRead' = [hsRead EXCEPT ![s] = data]
              /\ cin' = [cin EXCEPT ![s] = Drop(cin[s], n)]
              /\ CASE r.res = "panic" ->
                        /\ proc' = "crashed"
                        /\ UNCHANGED <<pc, client, cout>>
                   [] r.res = "error" ->
                        /\ Return(s)
                        /\ UNCHANGED <<proc, cout>>
                   [] r.res = "write" /\ wok ->
                        /\ cout' = [cout EXCEPT ![s] = cout[s] \o r.out]
                        /\ pc' = [pc EXCEPT ![s] = "request"]
                        /\ UNCHANGED <<proc, client>>
                   [] r.res = "write" /\ ~wok ->
                        /\ Return(s)
                        /\ UNCHANGED <<proc, cout>>
    /\ UNCHANGED <<upstream, header, destAddr, looked, ipsToCheck,
                   dialed, destConn, err, uin, uout, replies, c2o, o2c, csent, usent, fin, fout>>

\* readAddr on the bytes that follow what the handshake's Read consumed
ReadRequest(s) ==
    /\ proc = "running"
    /\ pc[s] = "request"
    /\ LET r == readAddr(cin[s])
       IN  /\ header' = [header EXCEPT ![s] = r.header]
           /\ IF r.ok
              THEN /\ destAddr' = [destAddr EXCEPT ![s] = r.addr]
                   /\ cin' = [cin EXCEPT ![s] = Drop(cin[s], r.n)]
                   /\ pc' = [pc EXCEPT ![s] = "lookup"]
                   /\ UNCHANGED client
              ELSE /\ Return(s)
                   /\ UNCHANGED <<destAddr, cin>>
    /\ UNCHANGED <<proc, upstream, cout, hsRead, looked, ipsToCheck,
                   dialed, destConn, err, uin, uout, replies, c2o, o2c, csent, usent, fin, fout>>

\* net.LookupIP(string(destAddr.Addr)): called whatever the address type and
\* whether or not an upstream is configured; its error is only logged.  The
\* resolver answers with any list of answers (the empty list comes with an error).
LookupIP(s, answers) ==
    /\ proc = "running"
    /\ pc[s] = "lookup"
    /\ looked' = [looked EXCEPT ![s] = Append(looked[s], destAddr[s].Addr)]
    /\ \E ans \in answers : ipsToCheck' = [ipsToCheck EXCEPT ![s] = ans]
    /\ pc' = [pc EXCEPT ![s] = "connect"]
    /\ UNCHANGED <<proc, upstream, cin, cout, client, hsRead, header, destAddr,
                   dialed, destConn, err, uin, uout, replies, c2o, o2c, csent, usent, fin, fout>>

\* the address handed to net.Dial in direct mode: net.JoinHostPort(ipToUse, port)
DirectTarget(s) == [to |-> "dest", host |-> ipToUse(ipsToCheck[s]), port |-> destAddr[s].Port]

\* the address handed to net.Dial in chained mode: the -upstream flag
UpstreamTarget == [to |-> "upstream", host |-> EmptyHost, port |-> 0]

\* direct mode: net.Dial("tcp", addrStr).  With an empty host net.Dial connects
\* to the local system, so the outcome is the environment's in every case.
\* dests: what the destination may send once connected.
DialDirect(s, dests) ==
    /\ proc = "running"
    /\ pc[s] = "connect"
    /\ upstream = ""
    /\ dialed' = [dialed EXCEPT ![s] = Append(dialed[s], DirectTarget(s))]
    /\ \/ /\ destConn' = [destConn EXCEPT ![s] = "open"]
          /\ \E d \in dests : /\ uin' = [uin EXCEPT ![s] = d]
                               /\ usent' = [usent EXCEPT ![s] = d]
          /\ err' = [err EXCEPT ![s] = FALSE]
       \/ /\ err' = [err EXCEPT ![s] = TRUE]
          /\ UNCHANGED <<destConn, uin, usent>>
    /\ pc' = [pc EXCEPT ![s] = "reply"]
    /\ UNCHANGED <<proc, upstream, cin, cout, client, hsRead, header, destAddr, looked,
                   ipsToCheck, uout, replies, c2o, o2c, csent, fin, fout>>

\* dialThroughSocks: net.Dial("tcp", upstream).  ups: what the upstream may send.
UpDial(s, ups) ==
    /\ proc = "running"
    /\ pc[s] = "connect"
    /\ upstream # ""
    /\ dialed' = [dialed EXCEPT ![s] = Append(dialed[s], UpstreamTarget)]
    /\ \/ /\ destConn' = [destConn EXCEPT ![s] = "open"]
          /\ \E u \in ups : /\ uin' = [uin EXCEPT ![s] = u]
                             /\ usent' = [usent EXCEPT ![s] = u]
          /\ pc' = [pc EXCEPT ![s] = "up_hs"]
          /\ UNCHANGED err
       \/ /\ err' = [err EXCEPT ![s] = TRUE]
          /\ pc' = [pc EXCEPT ![s] = "reply"]
          /\ UNCHANGED <<destConn, uin, usent>>
    /\ UNCHANGED <<proc, upstream, cin, cout, client, hsRead, header, destAddr, looked,
                   ipsToCheck, uout, replies, c2o, o2c, csent, fin, fout>>

\* dialThroughSocks failing after the dial without conn.Close()
UpFail_NoClose(s) ==
    /\ err' = [err EXCEPT ![s] = TRUE]
    /\ pc' = [pc EXCEPT ![s] = "reply"]
    /\ UNCHANGED destConn

\* dialThroughSocks fails after the dial: conn.Close(), return nil, err
UpFail(s) ==
    /\ destConn' = [destConn EXCEPT ![s] = "closed"]
    /\ err' = [err EXCEPT ![s] = TRUE]
    /\ pc' = [pc EXCEPT ![s] = "reply"]

\* dialThroughSocks: write {5,1,0}, read exactly 2 bytes, require {5,0}
UpHandshake(s) ==
    /\ proc = "running"
    /\ pc[s] = "up_hs"
    /\ \E wok \in BOOLEAN :
          IF ~wok
          THEN UpFail(s) /\ UNCHANGED <<uin, uout>>
          ELSE /\ uout' = [uout EXCEPT ![s] = uout[s] \o <<5, 1, 0>>]
               /\ IF Len(uin[s]) < 2
                  THEN UpFail(s) /\ UNCHANGED uin
                  ELSE /\ uin' = [uin EXCEPT ![s] = Drop(uin[s], 2)]
                       /\ IF uin[s][1] # 5 \/ uin[s][2] # 0
                          THEN UpFail(s)
                          ELSE /\ pc' = [pc EXCEPT ![s] = "up_req"]
                               /\ UNCHANGED <<destConn, err>>
    /\ UNCHANGED <<proc, upstream, cin, cout, client, hsRead, header, destAddr, looked,
                   ipsToCheck, dialed, replies, c2o, o2c, csent, usent, fin, fout>>

\* dialThroughSocks: write the CONNECT request, read and skip the reply
UpRequest(s) ==
    /\ proc = "running"
    /\ pc[s] = "up_req"
    /\ \E wok \in BOOLEAN :
          IF ~wok
          THEN UpFail(s) /\ UNCHANGED <<uin, uout>>
          ELSE /\ uout' = [uout EXCEPT ![s] = uout[s] \o ConnectRequest(destAddr[s])]
               /\ LET r == readUpstreamReply(uin[s])
                  IN  IF r.ok
                      THEN /\ uin' = [uin EXCEPT ![s] = Drop(uin[s], r.n)]
                           /\ err' = [err EXCEPT ![s] = FALSE]
                           /\ pc' = [pc EXCEPT ![s] = "reply"]
                           /\ UNCHANGED destConn
                      ELSE UpFail(s) /\ UNCHANGED uin
    /\ UNCHANGED <<proc, upstream, cin, cout, client, hsRead, header, destAddr, looked,
                   ipsToCheck, dialed, replies, c2o, o2c, csent, usent, fin, fout>>

\* the failure branch replying with the success status
ReplyFailure_SuccessStatus(s) ==
    /\ proc = "running"
    /\ pc[s] = "reply"
    /\ err[s]
    /\ replies' = [replies EXCEPT ![s] = Append(replies[s], 0)]
    /\ \E wok \in BOOLEAN :
          cout' = [cout EXCEPT ![s] = IF wok THEN cout[s] \o ReplyBytes(0) ELSE cout[s]]
    /\ Return(s)
    /\ UNCHANGED <<proc, upstream, cin, hsRead, header, destAddr, looked, ipsToCheck,
                   dialed, destConn, err, uin, uout, c2o, o2c, csent, usent, fin, fout>>

\* lines 117-121: err != nil: writeReply(client, 0x05) (its result is ignored), return
ReplyFailure(s) ==
    /\ proc = "running"
    /\ pc[s] = "reply"
    /\ err[s]
    /\ replies' = [replies EXCEPT ![s] = Append(replies[s], 5)]
    /\ \E wok \in BOOLEAN :
          cout' = [cout EXCEPT ![s] = IF wok THEN cout[s] \o ReplyBytes(5) ELSE cout[s]]
    /\ Return(s)
    /\ UNCHANGED <<proc, upstream, cin, hsRead, header, destAddr, looked, ipsToCheck,
                   dialed, destConn, err, uin, uout, c2o, o2c, csent, usent, fin, fout>>

\* lines 122-133 with the result of writeReply(client, 0x00) ignored: the copies
\* start whether or not the reply was written
ReplySuccess_RelayAnyway(s) ==
    /\ proc = "running"
    /\ pc[s] = "reply"
    /\ ~err[s]
    /\ replies' = [replies EXCEPT ![s] = Append(replies[s], 0)]
    /\ \E wok \in BOOLEAN :
          cout' = [cout EXCEPT ![s] = IF wok THEN cout[s] \o ReplyBytes(0) ELSE cout[s]]
    /\ c2o' = [c2o EXCEPT ![s] = "run"]
    /\ o2c' = [o2c EXCEPT ![s] = "run"]
    /\ pc' = [pc EXCEPT ![s] = "relay"]
    /\ UNCHANGED <<client, destConn>>
    /\ UNCHANGED <<proc, upstream, cin, hsRead, header, destAddr, looked, ipsToCheck,
                   dialed, err, uin, uout, csent, usent, fin, fout>>

\* lines 122-133: defer destConn.Close(); writeReply(client, 0x00); on a write
\* error return, otherwise start both copies
ReplySuccess(s) ==
    /\ proc = "running"
    /\ pc[s] = "reply"
    /\ ~err[s]
    /\ replies' = [replies EXCEPT ![s] = Append(replies[s], 0)]
    /\ \/ /\ cout' = [cout EXCEPT ![s] = cout[s] \o ReplyBytes(0)]
          /\ c2o' = [c2o EXCEPT ![s] = "run"]
          /\ o2c' = [o2c EXCEPT ![s] = "run"]
          /\ pc' = [pc EXCEPT ![s] = "relay"]
          /\ UNCHANGED <<client, destConn>>
       \/ /\ destConn' = [destConn EXCEPT ![s] = "closed"]
          /\ Return(s)
          /\ UNCHANGED <<cout, c2o, o2c>>
    /\ UNCHANGED <<proc, upstream, cin, hsRead, header, destAddr, looked, ipsToCheck,
                   dialed, err, uin, uout, csent, usent, fin, fout>>

----------------------------------------------------------------------------
(* The relay *)

\* one round of the goroutine io.Copy(destConn, client): read from the client,
\* write to the outbound connection; EOF or any error ends the copy
CopyC2O(s) ==
    /\ proc = "running"
    /\ c2o[s] = "run"
    /\ \/ /\ client[s] = "open"
          /\ cin[s] # <<>>
          /\ destConn[s] = "open"
          /\ \E n \in 1..Len(cin[s]) :
                /\ cin' = [cin EXCEPT ![s] = Drop(cin[s], n)]
                /\ \/ /\ uout' = [uout EXCEPT ![s] = uout[s] \o Take(cin[s], n)]
                      /\ UNCHANGED c2o
                   \/ /\ c2o' = [c2o EXCEPT ![s] = "done"]
                      /\ UNCHANGED uout
       \/ /\ client[s] = "open"
          /\ cin[s] # <<>>
          /\ destConn[s] # "open"
          /\ \E n \in 1..Len(cin[s]) : cin' = [cin EXCEPT ![s] = Drop(cin[s], n)]
          /\ c2o' = [c2o EXCEPT ![s] = "done"]
          /\ UNCHANGED uout
       \/ /\ client[s] # "open" \/ cin[s] = <<>>
          /\ c2o' = [c2o EXCEPT ![s] = "done"]
          /\ UNCHANGED <<cin, uout>>
    /\ UNCHANGED <<proc, upstream, pc, cout, client, hsRead, header, destAddr, looked,
                   ipsToCheck, dialed, destConn, err, uin, replies, o2c, csent, usent, fin, fout>>

\* one round of io.Copy(client, destConn) in handleClient: read from the outbound
\* connection, write to the client; EOF or any error ends the copy
CopyO2C(s) ==
    /\ proc = "running"
    /\ pc[s] = "relay"
    /\ o2c[s] = "run"
    /\ \/ /\ uin[s] # <<>>
          /\ \E n \in 1..Len(uin[s]) :
                /\ uin' = [uin EXCEPT ![s] = Drop(uin[s], n)]
                /\ \/ /\ cout' = [cout EXCEPT ![s] = cout[s] \o Take(uin[s], n)]
                      /\ UNCHANGED o2c
                   \/ /\ o2c' = [o2c EXCEPT ![s] = "done"]
                      /\ UNCHANGED cout
       \/ /\ uin[s] = <<>>
          /\ o2c' = [o2c EXCEPT ![s] = "done"]
          /\ UNCHANGED <<uin, cout>>
    /\ UNCHANGED <<proc, upstream, pc, cin, client, hsRead, header, destAddr, looked,
                   ipsToCheck, dialed, destConn, err, uout, replies, c2o, csent, usent, fin, fout>>

\* line 134: io.Copy(client, destConn) has returned, handleClient returns:
\* destConn.Close() and client.Close() run
RelayReturn(s) ==
    /\ proc = "running"
    /\ pc[s] = "relay"
    /\ o2c[s] = "done"
    /\ destConn' = [destConn EXCEPT ![s] = "closed"]
    /\ Return(s)
    /\ UNCHANGED <<proc, upstream, cin, cout, hsRead, header, destAddr, looked, ipsToCheck,
                   dialed, err, uin, uout, replies, c2o, o2c, csent, usent, fin, fout>>

----------------------------------------------------------------------------
(* The proxy with one client connection, in full detail *)

Step(s, answers, dests, ups) ==
    \/ HandshakeReadError(s)
    \/ Handshake(s)
    \/ ReadRequest(s)
    \/ LookupIP(s, answers)
    \/ DialDirect(s, dests)
    \/ UpDial(s, ups)
    \/ UpHandshake(s)
    \/ UpRequest(s)
    \/ ReplyFailure(s)
    \/ ReplySuccess(s)
    \/ CopyC2O(s)
    \/ CopyO2C(s)
    \/ RelayReturn(s)

Next ==
    \/ Listen
    \/ AcceptError
    \/ \E script \in ClientScripts \cup {<<>>} : Accept(1, script)
    \/ Step(1, ResolverAnswers, DestScripts, UpstreamScripts)

Spec == Init /\ [][Next]_vars

----------------------------------------------------------------------------
(* The proxy with MaxSessions concurrent client connections and fewer inputs *)

FewScripts == { <<5, 1, 0>> \o <<5, 1, 0, 1>> \o IPv4Body \o <<0, 80>> \o <<7>>,
                <<5, 254>>,
                <<>> }
FewAnswers == { <<V4Mapped(IPv4Body)>> }
FewDests == { <<9>> }
FewUpstreams == { <<5, 0>> \o <<5, 0, 0, 1, 0, 0, 0, 0, 0, 0>> \o <<9>>,
                  <<5, 0>> \o <<5, 1, 0, 1, 0, 0, 0, 0, 0, 0>> }

NextMulti ==
    \/ Listen
    \/ AcceptError
    \/ \E s \in Sessions :
          \/ \E script \in FewScripts : Accept(s, script)
          \/ Step(s, FewAnswers, FewDests, FewUpstreams)

SpecMulti == Init /\ [][NextMulti]_vars

----------------------------------------------------------------------------
(* handleHandshake as a function of the client's negotiation message and of the   *)
(* number of bytes the single Read returned.  The client sends {ver, nmethods}     *)
(* followed by `sent` method bytes: 0x02 everywhere, except 0x00 at index `zero`   *)
(* (zero = 0: no 0x00 among them).                                                 *)

HsMessage(f) == <<f.ver, f.nmethods>> \o [i \in 1..f.sent |-> IF i = f.zero THEN 0 ELSE 2]
HsData(f) == Take(HsMessage(f), f.n)

HandshakeInit ==
    /\ proc = "running"
    /\ upstream = ""
    /\ SessionInit
    /\ fout = NoFn
    /\ \E v \in {4, 5}, m \in Byte :
          \E k \in {m, m - 1, 0} \cap Byte :
             \E z \in {0, 1, k} \cap 0..k, n \in 1..Min(BufSize, 2 + k) :
                fin = [op |-> "handleHandshake", ver |-> v, nmethods |-> m,
                       sent |-> k, zero |-> z, n |-> n]

\* one call of handleHandshake whose Write succeeds
Negotiate ==
    /\ fin.op = "handleHandshake"
    /\ fout = NoFn
    /\ fout' = [op |-> "handleHandshake"] @@ handleHandshake(HsData(fin))
    /\ UNCHANGED <<proc, upstream, svars, fin>>

SpecHandshake == HandshakeInit /\ [][Negotiate]_vars

----------------------------------------------------------------------------
(* The address codec as functions: the CONNECT request dialThroughSocks builds for *)
(* an Addr, and readAddr applied to those bytes.                                    *)

ByteSamples == {0, 1, 2, 97}
PortSamples == {0, 80, 443, 65535}

ValidAddrs ==
    { [Atyp |-> 1, Addr |-> b, Port |-> p] : b \in [1..4 -> ByteSamples], p \in PortSamples }
    \cup { [Atyp |-> 3, Addr |-> d, Port |-> p] :
             d \in SeqsUpTo(ByteSamples, MaxDomainLen), p \in PortSamples }
    \cup { [Atyp |-> 4, Addr |-> b, Port |-> p] :
             b \in {IPv6Body} \cup { Fill(16, x) : x \in ByteSamples }, p \in PortSamples }

CodecInit ==
    /\ proc = "running"
    /\ upstream = UpstreamAddr
    /\ SessionInit
    /\ fout = NoFn
    /\ \E a \in ValidAddrs : fin = [op |-> "codec", a |-> a]

\* dialThroughSocks lines 221-225 on fin.a
Encode ==
    /\ fin.op = "codec"
    /\ fout = NoFn
    /\ fout' = [op |-> "encoded", bytes |-> ConnectRequest(fin.a)]
    /\ UNCHANGED <<proc, upstream, svars, fin>>

\* readAddr on the bytes Encode produced
Decode ==
    /\ fout.op = "encoded"
    /\ fout' = [op |-> "decoded", bytes |-> fout.bytes, r |-> readAddr(fout.bytes)]
    /\ UNCHANGED <<proc, upstream, svars, fin>>

SpecCodec == CodecInit /\ [][Encode \/ Decode]_vars

----------------------------------------------------------------------------
(* Claims *)

\* C1: once the listener is bound, no input makes the process terminate: a
\* running process stays running whatever a client or an upstream sends.
C1_NoInputStopsProcess == [][proc = "running" => proc' = "running"]_vars

\* C2: whenever the nmethods method bytes the client sent do not include 0x00,
\* negotiation fails and no response byte is written.
C2_NoAuthMethodRequired ==
    (fout.op = "handleHandshake" /\ fin.sent = fin.nmethods /\ fin.zero = 0)
        => (fout.res = "error" /\ fout.out = <<>>)

\* C3: whenever the single read returned fewer than 2+N bytes (N the method
\* count byte), negotiation fails and {5,0} is not written.
C3_ShortMessageFails ==
    (fout.op = "handleHandshake" /\ fin.n < 2 + fin.nmethods)
        => (fout.res = "error" /\ fout.out = <<>>)

\* C4: a well-formed negotiation message captured whole by the read (version 5,
\* count N, exactly N methods, 2+N <= 256, one of them 0x00) is accepted and
\* exactly {5,0} is written.
C4_WellFormedAccepted ==
    (/\ fout.op = "handleHandshake"
     /\ fin.ver = 5
     /\ fin.sent = fin.nmethods
     /\ fin.n = 2 + fin.nmethods
     /\ fin.n <= BufSize
     /\ fin.zero # 0)
        => (fout.res = "write" /\ fout.out = <<5, 0>>)

\* C5: the bytes emitted for a valid address a in the upstream CONNECT request
\* decode by readAddr's rules back to exactly a, consuming every emitted byte.
C5_CodecRoundTrip ==
    fout.op = "decoded"
        => (fout.r.ok /\ fout.r.addr = fin.a /\ fout.r.n = Len(fout.bytes))

\* C6: in direct mode, a request carrying an IPv4 or IPv6 address is dialed to
\* exactly that address and the requested port.
C6_DirectDialsRequestedIP ==
    \A s \in Sessions :
        (upstream = "" /\ destAddr[s].Atyp \in {1, 4} /\ dialed[s] # <<>>)
            => dialed[s] = << [to |-> "dest", host |-> IPString(destAddr[s].Addr),
                               port |-> destAddr[s].Port] >>

\* C7: in direct mode, when resolution yields zero addresses the session fails:
\* no outbound connection is opened, no success reply is sent, nothing is
\* relayed, and the session ends having replied 0x05.
C7_EmptyResolutionFails ==
    \A s \in Sessions :
        (upstream = "" /\ looked[s] # <<>> /\ ipsToCheck[s] = <<>>)
            => /\ destConn[s] = "none"
               /\ \A i \in 1..Len(replies[s]) : replies[s][i] # 0
               /\ c2o[s] = "none" /\ o2c[s] = "none"
               /\ pc[s] = "closed" => replies[s] = <<5>>

\* C8: whenever establishing the outbound connection fails, the proxy replies
\* 0x05 and nothing else, never a success reply, and ends the session without
\* starting either copy: nothing but the negotiation response and the failure
\* reply reaches the client, nothing but the upstream handshake and request
\* reaches the upstream.
C8_ConnectFailureReplies5 ==
    \A s \in Sessions :
        err[s] =>
            /\ pc[s] \in {"reply", "closed"}
            /\ replies[s] = IF pc[s] = "closed" THEN <<5>> ELSE <<>>
            /\ c2o[s] = "none" /\ o2c[s] = "none"
            /\ destConn[s] # "open"
            /\ cout[s] \in {<<5, 0>>, <<5, 0>> \o ReplyBytes(5)}
            /\ uout[s] \in {<<>>, <<5, 1, 0>>, <<5, 1, 0>> \o ConnectRequest(destAddr[s])}

\* C8 witness: chained mode, the upstream answered the CONNECT request with
\* status 1, the client got the failure reply and the session ended.
C8_Witness ==
    \E s \in Sessions :
        /\ upstream # ""
        /\ err[s]
        /\ pc[s] = "closed"
        /\ uout[s] = <<5, 1, 0>> \o ConnectRequest(destAddr[s])
        /\ Take(uin[s], 2) = <<5, 1>>
        /\ cout[s] = <<5, 0>> \o ReplyBytes(5)

\* C9: the relayed session ends when either copy terminates: once the
\* client->outbound copy has ended, handleClient can return without waiting for
\* the outbound->client copy.
C9_EitherCopyEndsSession ==
    \A s \in Sessions :
        (pc[s] = "relay" /\ c2o[s] = "done") => ENABLED RelayReturn(s)

\* C10: a request whose version is not 5, whose command is not 1 or whose
\* address type is outside {1,3,4} is rejected: the session ends with no name
\* resolution, no outbound connection, no reply and no relay.
C10_OnlyConnectAccepted ==
    \A s \in Sessions :
        (Len(header[s]) = 4
         /\ (header[s][1] # 5 \/ header[s][2] # 1 \/ header[s][4] \notin {1, 3, 4}))
            => /\ pc[s] = "closed"
               /\ looked[s] = <<>>
               /\ dialed[s] = <<>>
               /\ destConn[s] = "none"
               /\ replies[s] = <<>>
               /\ c2o[s] = "none" /\ o2c[s] = "none"

\* C10 witness: a BIND request was read and the session is closed.
C10_Witness ==
    \E s \in Sessions : Len(header[s]) = 4 /\ header[s][2] = 2 /\ pc[s] = "closed"

\* C11: a stalled session blocks neither the listener nor other sessions: while
\* the process runs, whatever the other sessions' positions, the accept loop
\* can accept the next connection and every session that has not ended can take
\* its next step.
C11_SessionsIndependent ==
    proc = "running" =>
        \A t \in Sessions :
            /\ (pc[t] = "idle" /\ \A u \in Sessions : u < t => pc[u] # "idle")
                   => ENABLED (\E script \in FewScripts : Accept(t, script))
            /\ pc[t] \notin {"idle", "closed"}
                   => ENABLED Step(t, FewAnswers, FewDests, FewUpstreams)

\* C11 witness: session 1 has not moved since it was accepted (stalled in the
\* handshake read) while a later session was accepted, relayed and ended.
C11_Witness ==
    \E t \in Sessions :
        /\ t > 1
        /\ pc[1] = "handshake"
        /\ pc[t] = "closed"
        /\ replies[t] = <<0>>
        /\ o2c[t] = "done"

----------------------------------------------------------------------------
(* Relay integrity *)

IsPrefix(a, b) == Len(a) <= Len(b) /\ a = Take(b, Len(a))

\* length of a SOCKS5 request or reply that starts at position i of the stream:
\* VER CMD/REP RSV ATYP, the address (4 bytes, 16 bytes, or a length byte and
\* that many bytes), and 2 port bytes; 0 when the stream does not hold one
MessageLen(stream, i) ==
    IF Len(stream) < i + 3 THEN 0
    ELSE LET atyp == stream[i + 3]
         IN  IF atyp = 1 THEN 10
             ELSE IF atyp = 4 THEN 22
             ELSE IF atyp = 3 /\ Len(stream) >= i + 4 THEN 7 + stream[i + 4]
             ELSE 0

\* what the client sends after its CONNECT request: its stream is the method
\* negotiation VER NMETHODS METHODS, the request, and then the payload
ClientPayload(stream) ==
    IF Len(stream) < 2 THEN <<>>
    ELSE LET req == 2 + stream[2] + 1
         IN  IF MessageLen(stream, req) = 0 THEN <<>>
             ELSE Drop(stream, req - 1 + MessageLen(stream, req))

\* what the outbound side sends for the client: everything in direct mode; in
\* chained mode what follows the upstream's 2-byte method reply and its CONNECT reply
OutboundPayload(stream) ==
    IF upstream = "" THEN stream
    ELSE IF MessageLen(stream, 3) = 0 THEN <<>>
    ELSE Drop(stream, 2 + MessageLen(stream, 3))

\* the bytes the relay delivered to the outbound connection of session s
RelayedOut(s) ==
    IF upstream = "" THEN uout[s]
    ELSE Drop(uout[s], 3 + Len(ConnectRequest(destAddr[s])))

\* the bytes the relay delivered to the client of session s, after {5,0} and the reply
RelayedIn(s) == Drop(cout[s], 2 + Len(ReplyBytes(0)))

\* C12: in a relayed session the bytes delivered to the outbound connection are a
\* prefix of what the client sent after its CONNECT request, and the bytes
\* delivered to the client after the success reply are a prefix of what the
\* outbound side sent (after the upstream's CONNECT reply in chained mode).
C12_RelayIntegrity ==
    \A s \in Sessions :
        c2o[s] # "none" =>
            /\ IsPrefix(RelayedOut(s), ClientPayload(csent[s]))
            /\ IsPrefix(RelayedIn(s), OutboundPayload(usent[s]))

----------------------------------------------------------------------------
(* Address selection in direct mode *)

\* C13: in direct mode the address dialed is the first IPv4 address of the
\* resolver's result if it holds one, otherwise its first address; and a
\* resolution error (no result) does not end the session: the session goes on
\* to dial, and it fails only when the dial failed.
C13_PrefersFirstIPv4 ==
    \A s \in Sessions :
        upstream = "" =>
            /\ dialed[s] # <<>> =>
                  LET ips == ipsToCheck[s]
                      host == dialed[s][1].host
                      V4s == { i \in 1..Len(ips) : To4(ips[i]) # <<>> }
                  IN  /\ Len(dialed[s]) = 1
                      /\ dialed[s][1].port = destAddr[s].Port
                      /\ V4s # {} =>
                            \E i \in V4s : /\ \A j \in V4s : i <= j
                                           /\ host = [fam |-> "ip4", b |-> To4(ips[i])]
                      /\ (V4s = {} /\ ips # <<>>) => host = [fam |-> "ip6", b |-> ips[1]]
            /\ (looked[s] # <<>> /\ pc[s] \in {"reply", "relay", "closed"}) => dialed[s] # <<>>
            /\ (looked[s] # <<>> /\ replies[s] = <<5>>) => err[s]

C13_Witness ==
    \E s \in Sessions :
        /\ upstream = ""
        /\ ipsToCheck[s] = <<IPv6Body, V4Mapped(<<10, 0, 0, 2>>)>>
        /\ dialed[s] = << [to |-> "dest", host |-> [fam |-> "ip4", b |-> <<10, 0, 0, 2>>],
                           port |-> 443] >>
        /\ destConn[s] = "open"

----------------------------------------------------------------------------
(* The reply to the client *)

\* C14: every reply written to a client is exactly the 10 bytes
\* {5, status, 0, 1, 0,0,0,0, 0,0} with status 0 or 5, whatever the destination,
\* and a session writes at most one reply: writeReply is called at most once,
\* and what the client receives after the 2-byte negotiation response starts
\* with that one reply.
C14_FixedReply ==
    \A s \in Sessions :
        /\ Len(replies[s]) <= 1
        /\ \A i \in 1..Len(replies[s]) : replies[s][i] \in {0, 5}
        /\ Len(cout[s]) > 2 =>
              /\ Len(cout[s]) >= 12
              /\ replies[s] # <<>>
              /\ SubSeq(cout[s], 3, 12) = <<5, replies[s][1], 0, 1, 0, 0, 0, 0, 0, 0>>
              /\ Len(cout[s]) > 12 => replies[s] = <<0>>

C14_Witness ==
    \E s \in Sessions :
        /\ destAddr[s].Atyp = 3
        /\ replies[s] = <<0>>
        /\ cout[s] = <<5, 0>> \o <<5, 0, 0, 1, 0, 0, 0, 0, 0, 0>> \o <<9, 10>>

----------------------------------------------------------------------------
(* The upstream connection *)

\* C15: in chained mode a failure at any step after the TCP connection to the
\* upstream was opened closes that connection before the error is returned: no
\* session has ended, or holds or has reported a connect failure, while its
\* upstream connection is still open.
C15_UpstreamClosedOnFailure ==
    \A s \in Sessions :
        (/\ upstream # ""
         /\ \/ pc[s] = "closed"
            \/ pc[s] = "reply" /\ err[s]
            \/ replies[s] = <<5>>)
            => destConn[s] # "open"

C15_Witness ==
    \E s \in Sessions :
        /\ upstream # ""
        /\ pc[s] = "closed"
        /\ replies[s] = <<5>>
        /\ uout[s] = <<5, 1, 0>> \o ConnectRequest(destAddr[s])
        /\ destConn[s] = "closed"

----------------------------------------------------------------------------
(* The start of the relay *)

\* the 10-byte reply with status 0 has been written to the client of session s
SuccessReplyWritten(s) ==
    /\ replies[s] = <<0>>
    /\ Len(cout[s]) >= 12
    /\ SubSeq(cout[s], 3, 12) = <<5, 0, 0, 1, 0, 0, 0, 0, 0, 0>>

\* a step that copies bytes of session s from the client to the outbound
\* connection, or from the outbound connection to the client
CopiesBytes(s) ==
    \/ cin'[s] # cin[s] /\ uout'[s] # uout[s]
    \/ uin'[s] # uin[s] /\ cout'[s] # cout[s]

\* C16: relay starts only after the success reply: no step copies a byte in
\* either direction unless the outbound connection is open and the success
\* reply has been written, no copy is started before that, and when writing the
\* success reply failed the session has ended with no copy started and the
\* outbound connection closed.
C16_RelayAfterSuccessReply ==
    /\ [](\A s \in Sessions :
            /\ (c2o[s] # "none" \/ o2c[s] # "none") => SuccessReplyWritten(s)
            /\ (replies[s] = <<0>> /\ ~SuccessReplyWritten(s))
                  => /\ pc[s] = "closed"
                     /\ destConn[s] = "closed"
                     /\ c2o[s] = "none" /\ o2c[s] = "none")
    /\ [][\A s \in Sessions :
            CopiesBytes(s) => (destConn[s] = "open" /\ SuccessReplyWritten(s))]_vars

C16_Witness ==
    \E s \in Sessions :
        /\ SuccessReplyWritten(s)
        /\ RelayedOut(s) = <<7, 8>>
        /\ RelayedIn(s) = <<9, 10>>

----------------------------------------------------------------------------
(* Chained mode *)

\* C17: with an upstream configured, the outbound activity of a session after
\* its request was parsed is exactly: dial the upstream, write {5,1,0}, read
\* {5,0}, write the CONNECT request, read the reply; the destination host is
\* not resolved locally, so no DNS lookup is made in chained mode.
C17_ChainedNoLocalLookup ==
    \A s \in Sessions :
        upstream # "" =>
            /\ looked[s] = <<>>
            /\ dialed[s] \in { <<>>, <<UpstreamTarget>> }
            /\ c2o[s] = "none" => IsPrefix(uout[s], <<5, 1, 0>> \o ConnectRequest(destAddr[s]))
            /\ Len(uout[s]) > 3 => Take(usent[s], 2) = <<5, 0>>

\* session s is in chained mode and dialThroughSocks has returned a connection
UpstreamAccepted(s) ==
    /\ upstream # ""
    /\ dialed[s] # <<>>
    /\ pc[s] \in {"reply", "relay", "closed"}
    /\ ~err[s]

\* C18: parsing the upstream's reply consumes exactly the reply: it succeeds
\* only on status 0 and an address type of 1, 3 or 4, and has then read the 4
\* header bytes and 4+2, 1+L+2 or 16+2 more, so what is left to read, and what
\* is relayed to the client, starts at the first byte the upstream sent after
\* its reply.
C18_UpstreamReplyConsumed ==
    \A s \in Sessions :
        UpstreamAccepted(s) =>
            LET rep == Drop(usent[s], 2)
                body == CASE rep[4] = 1 -> 4 + 2
                          [] rep[4] = 3 -> 1 + rep[5] + 2
                          [] rep[4] = 4 -> 16 + 2
                          [] OTHER -> 0
                rest == Drop(rep, 4 + body)
            IN  /\ Len(rep) >= 4
                /\ rep[2] = 0
                /\ rep[4] \in {1, 3, 4}
                /\ Len(rep) >= 4 + body
                /\ pc[s] = "reply" => uin[s] = rest
                /\ IsPrefix(RelayedIn(s), rest)
                /\ IsPrefix(RelayedIn(s) \o uin[s], rest)

C18_Witness ==
    \E s \in Sessions :
        /\ UpstreamAccepted(s)
        /\ usent[s] = <<5, 0>> \o <<5, 0, 0, 3, 1, 97, 0, 0>> \o <<9>>
        /\ RelayedIn(s) = <<9>>

----------------------------------------------------------------------------
(* Handshake framing *)

\* C19: however the client's bytes are split into reads, a successful
\* negotiation consumes exactly the 2+N bytes of the negotiation message
\* VER N METHODS: request parsing starts at the first byte the client sent after
\* it, no request byte is swallowed and no negotiation byte is left over.
C19_HandshakeFraming ==
    \A s \in Sessions :
        (hsRead[s] # <<>> /\ Take(cout[s], 2) = <<5, 0>>)
            => /\ hsRead[s] = Take(csent[s], 2 + csent[s][2])
               /\ pc[s] = "request" => cin[s] = Drop(csent[s], 2 + csent[s][2])

----------------------------------------------------------------------------
(* Teardown.  The Go scheduler runs every runnable goroutine: the goroutine of  *)
(* io.Copy(destConn, client) keeps taking its rounds while it has not returned. *)

TeardownScripts == { <<5, 1, 0>> \o <<5, 1, 0, 3, 1, 97, 1, 187>> \o <<7>>, <<5, 254>>, <<>> }
TeardownUpstreams == { <<5, 0>> \o <<5, 0, 0, 1, 0, 0, 0, 0, 0, 0>> \o <<9>> }

NextTeardown ==
    \/ Listen
    \/ AcceptError
    \/ \E s \in Sessions :
          \/ \E script \in TeardownScripts : Accept(s, script)
          \/ Step(s, FewAnswers, FewDests, TeardownUpstreams)

SpecTeardown ==
    Init /\ [][NextTeardown]_vars /\ \A s \in Sessions : WF_vars(CopyC2O(s))

\* C20: on every path by which a session's handler returns, the client
\* connection is closed and the outbound connection is closed if it was opened;
\* and once the handler has returned after a relay, the client->outbound copy
\* that is still running eventually terminates: from some point on no finished
\* session has a running copy (all of it ends with the process, if the process
\* dies).
C20_TeardownReleasesAll ==
    /\ [](\A s \in Sessions :
            pc[s] = "closed" => (client[s] = "closed" /\ destConn[s] \in {"none", "closed"}))
    /\ <>[](\A s \in Sessions :
              (pc[s] = "closed" /\ c2o[s] = "run") => proc # "running")

C20_Witness ==
    \E s \in Sessions :
        /\ pc[s] = "closed"
        /\ client[s] = "closed"
        /\ destConn[s] = "closed"
        /\ o2c[s] = "done"
        /\ c2o[s] = "run"
        /\ cin[s] # <<>>

====
